---- MODULE Spec2Model ----
(***************************************************************************)
(* PatentInsight-AI (src/app.py): the map-reduce report orchestrator.      *)
(*                                                                         *)
(*   Spec         generate_final_report: single-pass or map-reduce job     *)
(*   SpecRetry    generate_with_retry on its own, for any retries          *)
(*   SpecPlan     the chunk planner and client assignment, for any sizes   *)
(*   SpecCompress compress_patent_row on one record                        *)
(*   SpecSanitize clean_html on one raw text                               *)
(*   FairSpec     the job of Spec under weak fairness, its calls counted   *)
(*                                                                         *)
(* Texts are modelled by what the program can tell about them: the answer  *)
(* of a map task is tagged with the request it answers, an error by its    *)
(* description string, and the answer of the direct/reduce call, which is  *)
(* sanitized and measured, is a sequence of tokens.  run_analysis, the     *)
(* only consumer of the generator, runs its loop body at every yield.      *)
(***************************************************************************)
EXTENDS Integers, Sequences, FiniteSets, TLC

VARIABLES
    total_rows,         \* len(data_frames)
    chunk_size,         \* CHUNK_SIZE
    retries,            \* generate_with_retry's retries parameter
    clients,            \* the client pool, a sequence of handles
    pc,                 \* position of the generator / of the operation under study
    chunks,             \* the chunk list built by the planner
    tasks,              \* one analyze_batch coroutine per chunk: its arguments
    task_gwr,           \* per task: its generate_with_retry activation
    task_result,        \* per task: what analyze_batch returned (NotDone before)
    done_queue,         \* as_completed: the finished tasks in completion order; the
                        \* loop has been handed the first completed_count of them
    batch_summaries,    \* the results array
    completed_count,    \* the running completion count
    combined_summaries, \* the labelled concatenation handed to the reducer
    events,             \* everything the generator has yielded so far
    main_gwr,           \* the generate_with_retry activation of the direct/reduce call
    row,                \* compress_patent_row: the record
    row_string,         \* compress_patent_row: the digest built
    final_html,         \* run_analysis: the document kept so far
    api_calls,          \* external calls issued so far (counted in FairSpec only)
    raw_text,           \* clean_html: its argument
    cleaned             \* clean_html: its result

vars == << total_rows, chunk_size, retries, clients, pc, chunks, tasks, task_gwr,
           task_result, done_queue, batch_summaries, completed_count,
           combined_summaries, events, main_gwr, row, row_string, final_html,
           api_calls, raw_text, cleaned >>

(***************************************************************************)
(* Bounds of the model                                                     *)
(***************************************************************************)
MaxChunks == 3      \* most chunks a job of Spec is given
MaxPool == 2        \* largest client pool
MaxRetries == 4     \* largest retries value tried in SpecRetry
MaxN == 9           \* most digests given to the planner in SpecPlan
MaxS == 4           \* largest chunk size given to the planner in SpecPlan
MaxFields == 6      \* most fields of a record in SpecCompress
MaxText == 4        \* most tokens of a raw text in SpecSanitize
MaxFairChunks == 2  \* most chunks a job of FairSpec is given

(***************************************************************************)
(* Program constants                                                       *)
(***************************************************************************)
CHUNK_SIZE == 60
DEFAULT_RETRIES == 3
base_delay == 5
KEY_MAX == 30
VALUE_MAX == 300
ROW_CAP == 1500
ELLIPSIS_LEN == 3
PROGRESS_THRESHOLD == 200

Min(a, b) == IF a <= b THEN a ELSE b

RECURSIVE Pow2(_)
Pow2(n) == IF n <= 0 THEN 1 ELSE 2 * Pow2(n - 1)

(***************************************************************************)
(* The external service.  A call either answers with a text or fails with  *)
(* an error whose description is one of ErrorStrs.                         *)
(***************************************************************************)
ErrorStrs == { "429 Too Many Requests", "quota RESOURCE_EXHAUSTED", "500 INTERNAL" }

\* "429" in error_str
Contains429(error_str) == error_str \in { "429 Too Many Requests" }
\* "RESOURCE_EXHAUSTED" in error_str
ContainsResourceExhausted(error_str) == error_str \in { "quota RESOURCE_EXHAUSTED" }

NoneValue == [kind |-> "None"]
EmptyText == [kind |-> "text", of |-> << "empty", 0, 0 >>]

\* the text answering `contents`
ResponseText(contents) == [kind |-> "text", of |-> contents.id]
\* what response.text can be for an answer to `contents`: that text, or None
ReplyTexts(contents) == { ResponseText(contents), NoneValue }
\* the response that external call number n of an activation produced
Response(n, text) == [kind |-> "response", call |-> n, text |-> text]

(***************************************************************************)
(* generate_with_retry (app.py 225-243), one activation as a record:       *)
(*   st       "idle" | "calling" | "sleeping" | "returned" | "raised", and *)
(*            "ended" for the activation of a task that has settled        *)
(*   attempt  the loop variable                                            *)
(*   calls    external calls issued so far                                 *)
(*   waits    the sleeps performed so far, in order                        *)
(*   errors   the descriptions of the failures caught so far, in order     *)
(*   result   the value returned or the exception raised                   *)
(***************************************************************************)
IdleGwr == [st |-> "idle", client |-> 0, contents |-> [id |-> << "none", 0, 0 >>, data |-> << >>], attempt |-> 0,
            calls |-> 0, waits |-> << >>, errors |-> << >>, result |-> NoneValue]

\* "429" in error_str or "RESOURCE_EXHAUSTED" in error_str
is_rate_limit_any(error_str) == TRUE
is_rate_limit(error_str) == Contains429(error_str) \/ ContainsResourceExhausted(error_str)

\* wait_time = base_delay * (2 ** attempt)
wait_time_linear(attempt) == base_delay * (attempt + 1)
wait_time(attempt) == base_delay * Pow2(attempt)

\* the loop is entered: the first call is issued; for retries <= 0 the loop body
\* never runs and the function falls off its end, returning None
gwr_start(client, contents, n) ==
    IF n <= 0
    THEN [IdleGwr EXCEPT !.st = "returned", !.client = client, !.contents = contents]
    ELSE [IdleGwr EXCEPT !.st = "calling", !.client = client, !.contents = contents,
                         !.calls = 1]

\* the awaited call answers: return it
gwr_on_response(g, text) ==
    [g EXCEPT !.st = "returned", !.result = Response(g.calls, text)]

\* (the same with one attempt more than `retries`)
gwr_on_error_extra_attempt(g, error_str, n) ==
    IF is_rate_limit(error_str) /\ g.attempt < n
    THEN [g EXCEPT !.st = "sleeping",
                   !.errors = Append(@, error_str),
                   !.waits = Append(@, wait_time(g.attempt))]
    ELSE [g EXCEPT !.st = "raised",
                   !.errors = Append(@, error_str),
                   !.result = [kind |-> "exception", wrapped |-> is_rate_limit(error_str),
                               str |-> error_str]]

\* the awaited call raises e
gwr_on_error(g, error_str, n) ==
    IF is_rate_limit(error_str)
    THEN IF g.attempt < n - 1
         THEN [g EXCEPT !.st = "sleeping",
                        !.errors = Append(@, error_str),
                        !.waits = Append(@, wait_time(g.attempt))]
         ELSE [g EXCEPT !.st = "raised",
                        !.errors = Append(@, error_str),
                        !.result = [kind |-> "exception", wrapped |-> TRUE,
                                    str |-> error_str]]
    ELSE [g EXCEPT !.st = "raised",
                   !.errors = Append(@, error_str),
                   !.result = [kind |-> "exception", wrapped |-> FALSE,
                               str |-> error_str]]

\* the sleep is over: the next iteration of the loop issues the next call
gwr_on_wake(g) ==
    [g EXCEPT !.st = "calling", !.attempt = @ + 1, !.calls = @ + 1]


(***************************************************************************)
(* generate_final_report (app.py 278-397)                                  *)
(***************************************************************************)
\* compressed_rows: the digest of row k is named k
compressed_rows(n) == [k \in 1..n |-> k]

\* "\n---\n".join(parts)
join(parts) == [sep |-> "\n---\n", parts |-> parts]

\* rows[lo:hi] for 0 <= lo
slice_exclusive(rows, lo, hi) == SubSeq(rows, lo + 1, Min(hi - 1, Len(rows)))
slice(rows, lo, hi) == SubSeq(rows, lo + 1, Min(hi, Len(rows)))

\* for i in range(0, total_rows, CHUNK_SIZE): chunks.append(rows[i : i + CHUNK_SIZE])
RECURSIVE plan_from(_, _, _)
plan_from(rows, i, size) ==
    IF i >= Len(rows) THEN << >>
    ELSE << slice(rows, i, i + size) >> \o plan_from(rows, i + size, size)

plan_chunks(rows, size) == plan_from(rows, 0, size)

\* client_index = i % len(clients)
client_index_first(i, pool_size) == 0
client_index(i, pool_size) == i % pool_size

\* the tasks list: analyze_batch(assigned_client, chunk_text, ..., i, total_chunks)
build_tasks(chs, pool) ==
    [k \in 1..Len(chs) |->
        [client |-> pool[client_index(k - 1, Len(pool)) + 1],
         rows_text |-> join(chs[k]),
         batch_index |-> k - 1,
         total_batches |-> Len(chs)]]

\* the prompt of analyze_batch: "Batch {batch_index + 1}/{total_batches}" and the data
batch_prompt(t) ==
    [id |-> << "batch", t.batch_index + 1, t.total_batches >>, data |-> t.rows_text]

\* the prompt of the single direct call, over data_string
single_prompt(rows) == [id |-> << "single", 0, 0 >>, data |-> join(rows)]

\* the prompt of the reduce call, over combined_summaries
final_prompt(combined) == [id |-> << "reduce", 0, 0 >>, data |-> combined]

\* response.text or ""
text_or_empty(response) ==
    IF response.text = NoneValue THEN EmptyText ELSE response.text

\* f"Error in batch {batch_index}: {str(e)}"
error_marker(batch_index, exc) ==
    [kind |-> "marker", batch |-> batch_index, wrapped |-> exc.wrapped, str |-> exc.str]

\* (without the try/except of 265-276 the exception leaves the task)
analyze_batch_result_uncaught(g, batch_index) ==
    IF g.st = "returned" /\ g.result # NoneValue THEN text_or_empty(g.result) ELSE g.result

\* what analyze_batch returns once its generate_with_retry has ended (265-276);
\* a None response has no .text: the AttributeError is caught like any other
analyze_batch_result(g, batch_index) ==
    IF g.st = "returned"
    THEN IF g.result = NoneValue
         THEN error_marker(batch_index, [wrapped |-> FALSE, str |-> "AttributeError"])
         ELSE text_or_empty(g.result)
    ELSE error_marker(batch_index, g.result)

\* "\n\n".join(f"--- Batch {i+1} Report ---\n{s}" for i, s in enumerate(batch_summaries))
combine(summaries) ==
    [k \in 1..Len(summaries) |-> [label |-> << "Batch", k, "Report" >>, text |-> summaries[k]]]

(***************************************************************************)
(* clean_html (app.py 399-421).  A raw text is a sequence of tokens: the   *)
(* markers "<" and ">", their escaped forms, "fence" for the delimiter     *)
(* made of three backquotes,                                               *)
(* the word "html", white space, a short word and a long passage of prose. *)
(* "" is the empty sequence.  Where a value can also be None, a string is  *)
(* wrapped by RawText.                                                     *)
(***************************************************************************)
Tokens == { "<", ">", "&lt;", "&gt;", "fence", "html", " ", "word", "prose" }

\* len() of one token; a passage of prose is longer than any status message
token_len(t) ==
    CASE t \in { "<", ">", " " } -> 1
      [] t \in { "&lt;", "&gt;", "html" } -> 4
      [] t = "fence" -> 3
      [] t = "word" -> 5
      [] t = "prose" -> 600

RECURSIVE text_len(_)
text_len(text) == IF text = << >> THEN 0 ELSE token_len(Head(text)) + text_len(Tail(text))

\* html.unescape(text)
html_unescape(text) ==
    [j \in 1..Len(text) |->
        CASE text[j] = "&lt;" -> "<" [] text[j] = "&gt;" -> ">" [] OTHER -> text[j]]

RECURSIVE lstrip(_)
lstrip(text) == IF text # << >> /\ Head(text) = " " THEN lstrip(Tail(text)) ELSE text

RECURSIVE rstrip(_)
rstrip(text) ==
    IF text # << >> /\ text[Len(text)] = " "
    THEN rstrip(SubSeq(text, 1, Len(text) - 1))
    ELSE text

\* text.strip()
strip(text) == lstrip(rstrip(text))

\* the indices (1-based) at which token t occurs
Positions(text, t) == { j \in 1..Len(text) : text[j] = t }
SetMin(S) == CHOOSE x \in S : \A y \in S : x <= y
SetMax(S) == CHOOSE x \in S : \A y \in S : x >= y

\* text.find(t) and text.rfind(t): 0-based, -1 when t does not occur
find(text, t) == IF Positions(text, t) = {} THEN -1 ELSE SetMin(Positions(text, t)) - 1
rfind(text, t) == IF Positions(text, t) = {} THEN -1 ELSE SetMax(Positions(text, t)) - 1

\* re.search(r"```(?:html)?\s*(.*?)\s*```", text, re.DOTALL) matches when text holds
\* two fence delimiters
has_code_block(text) == Cardinality(Positions(text, "fence")) >= 2

\* group(1) of that match: what lies between the first delimiter and the next one,
\* without a leading "html" glued to the delimiter and without surrounding space
code_block_group(text) ==
    LET open == SetMin(Positions(text, "fence"))
        close == SetMin(Positions(text, "fence") \ { open })
        inner == SubSeq(text, open + 1, close - 1)
        body == IF inner # << >> /\ Head(inner) = "html" THEN Tail(inner) ELSE inner
    IN strip(body)

\* 411-416: keep text[start_tag : end_tag + 1] when a "<" comes before the last ">"
extract_markup_or_nothing(text) ==
    LET start_tag == find(text, "<")
        end_tag == rfind(text, ">")
    IN IF start_tag # -1 /\ end_tag # -1 /\ start_tag < end_tag
       THEN SubSeq(text, start_tag + 1, end_tag + 1)
       ELSE << >>
extract_markup(text) ==
    LET start_tag == find(text, "<")
        end_tag == rfind(text, ">")
    IN IF start_tag # -1 /\ end_tag # -1 /\ start_tag < end_tag
       THEN SubSeq(text, start_tag + 1, end_tag + 1)
       ELSE text

\* text.replace("```html", "").replace("```", "")
RECURSIVE remove_fences(_)
remove_fences(text) ==
    IF text = << >> THEN << >>
    ELSE IF Head(text) = "fence"
    THEN IF Len(text) >= 2 /\ text[2] = "html"
         THEN remove_fences(Tail(Tail(text)))
         ELSE remove_fences(Tail(text))
    ELSE << Head(text) >> \o remove_fences(Tail(text))

\* response.text when it is a string
RawText(tokens) == [kind |-> "str", tokens |-> tokens]

\* clean_html(text); text is None or a string
clean_html(text) ==
    IF text = NoneValue \/ text = RawText(<< >>)
    THEN << >>
    ELSE LET unescaped == html_unescape(text.tokens)
         IN IF has_code_block(unescaped)
            THEN strip(code_block_group(unescaped))
            ELSE strip(remove_fences(extract_markup(unescaped)))

Progress(m) == [kind |-> "progress", msg |-> m]
Final(doc) == [kind |-> "final", msg |-> doc]

RECURSIVE digits(_)
digits(n) == IF n < 10 THEN 1 ELSE 1 + digits(n \div 10)

\* len() of the status strings yielded at 285-286, 331, 355 and 359, MODEL_NAME
\* being 'gemini-2.5-flash-lite' (223)
status_len(m) ==
    CASE m[1] = "single" -> 42 + digits(m[2])
      [] m[1] = "start" -> 28 + digits(m[2])
      [] m[1] = "progress" -> 14 + digits(m[2]) + digits(m[3])
      [] m[1] = "reducing" -> 20

\* len(chunk) for a chunk of the stream
chunk_len(chunk) ==
    IF chunk.kind = "progress" THEN status_len(chunk.msg) ELSE text_len(chunk.msg)

\* the body of the loop of run_analysis (501-506): a chunk shorter than 200
\* characters is shown as a caption, any other chunk becomes final_html
run_analysis_chunk(html, chunk) ==
    IF chunk_len(chunk) < PROGRESS_THRESHOLD THEN html ELSE chunk.msg

\* the generator yields chunk and run_analysis, its only consumer, runs its loop
\* body on it before the generator is resumed
yield(chunk) ==
    /\ events' = Append(events, chunk)
    /\ final_html' = run_analysis_chunk(final_html, chunk)

\* what response.text of the direct/reduce call can be: None, a fenced report with
\* a preface, or a short document without fence
LongReport == RawText(<< "prose", "fence", "html", " ", "<", "prose", ">", " ", "fence" >>)
ShortReport == RawText(<< "<", "word", ">" >>)
MainReplyTexts == { NoneValue, LongReport, ShortReport }

\* yield f"進捗: {completed_count}/{total_chunks} バッチ完了..."
progress_message_stale(count, total) == Progress(<< "progress", count - 1, total >>)
progress_message(count, total) == Progress(<< "progress", count, total >>)

\* the loop over as_completed has handed out every future
as_completed_exhausted_early(handed, n) == handed >= n - 1
as_completed_exhausted(handed, n) == handed >= n

\* if total_rows <= CHUNK_SIZE: the single-pass branch
single_pass_strict(n, size) == n < size
single_pass(n, size) == n <= size

\* batch_summaries[idx] = result: the (1-based) slot written for the task of index
\* idx, the handed-th future handed out by as_completed
summary_slot_by_completion(idx, handed) == handed
summary_slot_first(idx, handed) == 1
summary_slot(idx, handed) == idx + 1

\* yield "全バッチ完了。最終レポートを生成中..."
reduce_announcement_as_document(combined) == Final(<< "prose" >>)
reduce_announcement(combined) == Progress(<< "reducing", 0, 0 >>)

NotDone == [kind |-> "pending"]
NoRow == << >>

JobErrors == { "429 Too Many Requests", "500 INTERNAL" }

\* record counts given to a job: both modes, the boundary, full and partial last chunks
RowCounts ==
    { 0, 5, CHUNK_SIZE, CHUNK_SIZE + 1, 2 * CHUNK_SIZE }
    \cup { c * CHUNK_SIZE + 10 : c \in 2..(MaxChunks - 1) }

Pools == { [k \in 1..p |-> [key |-> k]] : p \in 1..MaxPool }

Init ==
    /\ total_rows \in RowCounts
    /\ chunk_size = CHUNK_SIZE
    /\ retries = DEFAULT_RETRIES
    /\ clients \in Pools
    /\ pc = "start"
    /\ chunks = << >>
    /\ tasks = << >>
    /\ task_gwr = << >>
    /\ task_result = << >>
    /\ done_queue = << >>
    /\ batch_summaries = << >>
    /\ completed_count = 0
    /\ combined_summaries = << >>
    /\ events = << >>
    /\ main_gwr = IdleGwr
    /\ row = NoRow
    /\ row_string = NoRow
    /\ final_html = << >>
    /\ api_calls = 0
    /\ raw_text = NoneValue
    /\ cleaned = << >>

\* 279-286 / 326-331: up to the first yield
Begin ==
    /\ pc = "start"
    /\ IF single_pass(total_rows, chunk_size)
       THEN /\ yield(Progress(<< "single", total_rows, 0 >>))
            /\ pc' = "single"
            /\ UNCHANGED chunks
       ELSE /\ chunks' = plan_chunks(compressed_rows(total_rows), chunk_size)
            /\ yield(Progress(<< "start", Len(chunks'), 0 >>))
            /\ pc' = "map"
    /\ UNCHANGED << total_rows, chunk_size, retries, clients, tasks, task_gwr, task_result,
                    done_queue, batch_summaries, completed_count, combined_summaries,
                    main_gwr, row, row_string, raw_text, cleaned >>

\* 288-315: the direct call on clients[0] over the whole digest text
SingleCall ==
    /\ pc = "single"
    /\ main_gwr' = gwr_start(clients[1], single_prompt(compressed_rows(total_rows)), retries)
    /\ pc' = "main_call"
    /\ UNCHANGED << total_rows, chunk_size, retries, clients, chunks, tasks, task_gwr,
                    task_result, done_queue, batch_summaries, completed_count,
                    combined_summaries, events, final_html, row, row_string, raw_text, cleaned >>

\* 333-351: the coroutines are built and handed to as_completed
LaunchMap ==
    /\ pc = "map"
    /\ tasks' = build_tasks(chunks, clients)
    /\ task_gwr' = [k \in 1..Len(chunks) |-> IdleGwr]
    /\ task_result' = [k \in 1..Len(chunks) |-> NotDone]
    /\ batch_summaries' = [k \in 1..Len(chunks) |-> EmptyText]
    /\ completed_count' = 0
    /\ done_queue' = << >>
    /\ pc' = "map_loop"
    /\ UNCHANGED << total_rows, chunk_size, retries, clients, chunks, combined_summaries,
                    events, final_html, main_gwr, row, row_string, raw_text, cleaned >>

EndedGwr == [IdleGwr EXCEPT !.st = "ended"]

\* await asyncio.sleep(wait_time) (239) gives the event loop back: the sleep of one
\* task keeps neither another task (k >= 1) nor the generator (k = 0) from running
loop_blocked_by_sleep(gs, k) == \E j \in 1..Len(gs) : j # k /\ gs[j].st = "sleeping"
loop_blocked(gs, k) == FALSE

\* the generate_with_retry of task k has moved to g; when it has returned or raised,
\* analyze_batch returns, run_task_with_index returns (idx, result) and as_completed
\* queues the finished task
task_step(k, g) ==
    IF g.st \in { "returned", "raised" }
    THEN /\ task_gwr' = [task_gwr EXCEPT ![k] = EndedGwr]
         /\ task_result' = [task_result EXCEPT
                               ![k] = analyze_batch_result(g, tasks[k].batch_index)]
         /\ done_queue' = Append(done_queue,
                               << k - 1, analyze_batch_result(g, tasks[k].batch_index) >>)
    ELSE /\ task_gwr' = [task_gwr EXCEPT ![k] = g]
         /\ UNCHANGED << task_result, done_queue >>

\* 245-266: task k runs up to its first external call
TaskStart(k) ==
    /\ pc = "map_loop"
    /\ task_gwr[k].st = "idle"
    /\ ~ loop_blocked(task_gwr, k)
    /\ task_step(k, gwr_start(tasks[k].client, batch_prompt(tasks[k]), retries))
    /\ UNCHANGED << total_rows, chunk_size, retries, clients, pc, chunks, tasks,
                    batch_summaries, completed_count, combined_summaries, events, final_html,
                    main_gwr, row, row_string, raw_text, cleaned >>

\* the external call of task k answers
TaskResponse(k) ==
    /\ pc = "map_loop"
    /\ task_gwr[k].st = "calling"
    /\ ~ loop_blocked(task_gwr, k)
    /\ \E text \in ReplyTexts(task_gwr[k].contents) :
          task_step(k, gwr_on_response(task_gwr[k], text))
    /\ UNCHANGED << total_rows, chunk_size, retries, clients, pc, chunks, tasks,
                    batch_summaries, completed_count, combined_summaries, events, final_html,
                    main_gwr, row, row_string, raw_text, cleaned >>

\* the external call of task k fails
TaskError(k) ==
    /\ pc = "map_loop"
    /\ task_gwr[k].st = "calling"
    /\ ~ loop_blocked(task_gwr, k)
    /\ \E e \in JobErrors : task_step(k, gwr_on_error(task_gwr[k], e, retries))
    /\ UNCHANGED << total_rows, chunk_size, retries, clients, pc, chunks, tasks,
                    batch_summaries, completed_count, combined_summaries, events, final_html,
                    main_gwr, row, row_string, raw_text, cleaned >>

\* the backoff sleep of task k is over
TaskWake(k) ==
    /\ pc = "map_loop"
    /\ task_gwr[k].st = "sleeping"
    /\ ~ loop_blocked(task_gwr, k)
    /\ task_step(k, gwr_on_wake(task_gwr[k]))
    /\ UNCHANGED << total_rows, chunk_size, retries, clients, pc, chunks, tasks,
                    batch_summaries, completed_count, combined_summaries,
                    events, final_html, main_gwr, row, row_string, raw_text, cleaned >>

\* 351-355: one iteration of the loop over as_completed: the next future in
\* completion order is awaited; awaiting a task that raised raises here
Consume ==
    /\ pc = "map_loop"
    /\ ~ loop_blocked(task_gwr, 0)
    /\ ~ as_completed_exhausted(completed_count, Len(tasks))
    /\ completed_count < Len(done_queue)
    /\ LET idx == done_queue[completed_count + 1][1]
           result == done_queue[completed_count + 1][2]
       IN IF result.kind = "exception"
          THEN /\ pc' = "fatal"
               /\ UNCHANGED << batch_summaries, completed_count, events, final_html >>
          ELSE /\ batch_summaries' =
                     [batch_summaries EXCEPT
                        ![summary_slot(idx, completed_count + 1)] = result]
               /\ completed_count' = completed_count + 1
               /\ yield(progress_message(completed_count + 1, Len(chunks)))
               /\ UNCHANGED pc
    /\ UNCHANGED << total_rows, chunk_size, retries, clients, chunks, tasks, task_gwr,
                    task_result, done_queue, combined_summaries, main_gwr, row, row_string, raw_text, cleaned >>

\* 357-359: the loop is over; the summaries are combined
Assemble ==
    /\ pc = "map_loop"
    /\ as_completed_exhausted(completed_count, Len(tasks))
    /\ combined_summaries' = combine(batch_summaries)
    /\ yield(reduce_announcement(combine(batch_summaries)))
    /\ pc' = "reduce"
    /\ UNCHANGED << total_rows, chunk_size, retries, clients, chunks, tasks, task_gwr,
                    task_result, done_queue, batch_summaries, completed_count, main_gwr,
                    row, row_string, raw_text, cleaned >>

\* 361-389: the reduce call on clients[0]
ReduceCall ==
    /\ pc = "reduce"
    /\ main_gwr' = gwr_start(clients[1], final_prompt(combined_summaries), retries)
    /\ pc' = "main_call"
    /\ UNCHANGED << total_rows, chunk_size, retries, clients, chunks, tasks, task_gwr,
                    task_result, done_queue, batch_summaries, completed_count,
                    combined_summaries, events, final_html, row, row_string, raw_text, cleaned >>

\* (a direct/reduce call whose failure is turned into a document, as analyze_batch does)
main_step_isolated(g) ==
    /\ main_gwr' = g
    /\ IF g.st \in { "returned", "raised" }
       THEN /\ yield(Final(IF g.st = "returned" /\ g.result # NoneValue
                          THEN clean_html(g.result.text)
                          ELSE << "word" >>))
            /\ pc' = "yielded_final"
       ELSE UNCHANGED << pc, events, final_html >>

\* 315-323 / 389-397: the direct/reduce generate_with_retry has moved to g
main_step(g) ==
    /\ main_gwr' = g
    /\ IF g.st = "returned" /\ g.result # NoneValue
       THEN /\ yield(Final(clean_html(g.result.text)))
            /\ pc' = "yielded_final"
       ELSE IF g.st \in { "returned", "raised" }
       THEN /\ pc' = "fatal"
            /\ UNCHANGED << events, final_html >>
       ELSE UNCHANGED << pc, events, final_html >>

MainResponse ==
    /\ pc = "main_call"
    /\ main_gwr.st = "calling"
    /\ \E text \in MainReplyTexts : main_step(gwr_on_response(main_gwr, text))
    /\ UNCHANGED << total_rows, chunk_size, retries, clients, chunks, tasks, task_gwr,
                    task_result, done_queue, batch_summaries, completed_count,
                    combined_summaries, row, row_string, raw_text, cleaned >>

MainError ==
    /\ pc = "main_call"
    /\ main_gwr.st = "calling"
    /\ \E e \in JobErrors : main_step(gwr_on_error(main_gwr, e, retries))
    /\ UNCHANGED << total_rows, chunk_size, retries, clients, chunks, tasks, task_gwr,
                    task_result, done_queue, batch_summaries, completed_count,
                    combined_summaries, row, row_string, raw_text, cleaned >>

MainWake ==
    /\ pc = "main_call"
    /\ main_gwr.st = "sleeping"
    /\ main_step(gwr_on_wake(main_gwr))
    /\ UNCHANGED << total_rows, chunk_size, retries, clients, chunks, tasks, task_gwr,
                    task_result, done_queue, batch_summaries, completed_count,
                    combined_summaries, row, row_string, raw_text, cleaned >>

\* the generator is resumed after its last yield and returns
Finish ==
    /\ pc = "yielded_final"
    /\ pc' = "done"
    /\ UNCHANGED << total_rows, chunk_size, retries, clients, chunks, tasks, task_gwr,
                    task_result, done_queue, batch_summaries, completed_count,
                    combined_summaries, events, final_html, main_gwr, row, row_string, raw_text, cleaned >>

Next ==
    \/ Begin /\ UNCHANGED api_calls
    \/ SingleCall /\ UNCHANGED api_calls
    \/ LaunchMap /\ UNCHANGED api_calls
    \/ \E k \in 1..Len(tasks) : TaskStart(k) /\ UNCHANGED api_calls
    \/ \E k \in 1..Len(tasks) : TaskResponse(k) /\ UNCHANGED api_calls
    \/ \E k \in 1..Len(tasks) : TaskError(k) /\ UNCHANGED api_calls
    \/ \E k \in 1..Len(tasks) : TaskWake(k) /\ UNCHANGED api_calls
    \/ Consume /\ UNCHANGED api_calls
    \/ Assemble /\ UNCHANGED api_calls
    \/ ReduceCall /\ UNCHANGED api_calls
    \/ MainResponse /\ UNCHANGED api_calls
    \/ MainError /\ UNCHANGED api_calls
    \/ MainWake /\ UNCHANGED api_calls
    \/ Finish /\ UNCHANGED api_calls

Spec == Init /\ [][Next]_vars


(***************************************************************************)
(* Properties of generate_final_report, checked under Spec                 *)
(***************************************************************************)
MapMode == total_rows > chunk_size
MainCallStarted == main_gwr.st # "idle"
HasFinal == \E j \in 1..Len(events) : events[j].kind = "final"

\* task k has ended, with a text or an error marker
Settled(k) == task_result[k] # NotDone /\ task_gwr[k].st = "ended"
\* the loop over as_completed has been handed task k
Handed(k) == \E j \in 1..completed_count : j <= Len(done_queue) /\ done_queue[j][1] = k - 1
\* the slot of task k holds the outcome of task k
SlotWritten(k) == Handed(k) /\ batch_summaries[k] = task_result[k]
\* the tasks ended in the order of the 0-based indices in order
CompletionOrder(order) ==
    /\ Len(done_queue) = Len(order)
    /\ \A j \in 1..Len(order) : done_queue[j][1] = order[j]

\* C1: in map-reduce mode the reduce call is not started before every one of the
\* chunkCount map tasks has settled and its slot of batch_summaries has been written.
C1_Barrier ==
    (MapMode /\ MainCallStarted) =>
        /\ Len(tasks) = Len(chunks)
        /\ Len(batch_summaries) = Len(chunks)
        /\ completed_count = Len(chunks)
        /\ \A k \in 1..Len(chunks) : Settled(k) /\ SlotWritten(k)

\* the reduce call is in flight after three tasks that ended in the order 2, 0, 1
C1_Witness ==
    /\ MapMode
    /\ main_gwr.st = "calling"
    /\ main_gwr.contents.id = << "reduce", 0, 0 >>
    /\ CompletionOrder(<< 2, 0, 1 >>)

\* C2: whatever the completion order, the text passed to the reduce call lists the
\* batch results in ascending chunk index: entry k is labelled Batch k and holds the
\* result of the task of chunk k-1 (the answer to that chunk's own request, or its
\* own error marker), so the input depends on the per-chunk results only.
C2_IndexOrder ==
    (MapMode /\ MainCallStarted) =>
        LET input == main_gwr.contents.data
        IN /\ main_gwr.contents.id = << "reduce", 0, 0 >>
           /\ Len(input) = Len(chunks)
           /\ \A k \in 1..Len(chunks) :
                /\ input[k].label = << "Batch", k, "Report" >>
                /\ input[k].text = task_result[k]
                /\ tasks[k].rows_text.parts = chunks[k]
                /\ tasks[k].batch_index = k - 1
                /\ input[k].text.kind = "text" =>
                       \/ input[k].text.of = << "batch", k, Len(chunks) >>
                       \/ input[k].text = EmptyText
                /\ input[k].text.kind = "marker" => input[k].text.batch = k - 1

\* three tasks ended in reverse index order, with different outcomes, and the
\* reduce call has been issued
C2_Witness ==
    /\ MapMode
    /\ main_gwr.st = "calling"
    /\ CompletionOrder(<< 2, 1, 0 >>)
    /\ task_result[1].kind = "text"
    /\ task_result[3].kind = "marker"

\* C3: a map task whose retry executor raises does not abort the job: its result is
\* an error marker, every other result is what that task's own call produced (its
\* text, or "" when the answer carries none), the
\* job only ever fails through the direct/reduce call, and once every task has been
\* handed over the reduce call is issued.
C3_FailureIsolation ==
    /\ \A k \in 1..Len(task_result) :
          task_result[k] # NotDone =>
             \/ task_result[k] = ResponseText(batch_prompt(tasks[k]))
             \/ task_result[k] = EmptyText
             \/ /\ task_result[k].kind = "marker"
                /\ task_result[k].str \in JobErrors
                /\ task_result[k].wrapped = is_rate_limit(task_result[k].str)
    /\ \A j \in 1..Len(done_queue) :
          done_queue[j][2] = task_result[done_queue[j][1] + 1]
    /\ pc = "fatal" => main_gwr.st = "raised"
    /\ (pc = "map_loop" /\ completed_count = Len(tasks)) => ENABLED Assemble
    /\ pc = "reduce" => ENABLED ReduceCall

\* a job is done with a final document although the retry executor of its second
\* task was exhausted and that of its third failed at once
C3_Witness ==
    /\ pc = "done"
    /\ HasFinal
    /\ Len(task_result) = 3
    /\ task_result[1] = ResponseText(batch_prompt(tasks[1]))
    /\ task_result[2].kind = "marker" /\ task_result[2].wrapped
    /\ task_result[3].kind = "marker" /\ ~ task_result[3].wrapped

\* C5: when the direct call or the reduce call raises (retries exhausted or a
\* non-rate-limit error), the job ends with a fatal error: no final document has been
\* yielded and nothing more happens, however many map tasks succeeded.
C5_MainFailureFatal ==
    /\ main_gwr.st = "raised" => pc = "fatal"
    /\ pc = "fatal" => (~ HasFinal /\ ~ ENABLED Next)

\* the reduce call exhausted its retries after all three map tasks succeeded
C5_Witness ==
    /\ pc = "fatal"
    /\ main_gwr.contents.id = << "reduce", 0, 0 >>
    /\ main_gwr.result.kind = "exception" /\ main_gwr.result.wrapped
    /\ Len(task_result) = 3
    /\ \A k \in 1..3 : task_result[k].kind = "text"

\* C6: the stream is progress events followed by at most one final document, which
\* is then the last event; a finished run has exactly one, and a run that can go no
\* further has finished or has failed fatally.
C6_StreamShape ==
    /\ \A j \in 1..Len(events) :
          events[j].kind = "final" => (j = Len(events) /\ pc \in { "yielded_final", "done" })
    /\ pc \in { "yielded_final", "done" } =>
          (Len(events) >= 1 /\ events[Len(events)].kind = "final")
    /\ ~ ENABLED Next => pc \in { "done", "fatal" }

\* a map-reduce run is done: progress events, then the final document
C6_Witness ==
    /\ pc = "done"
    /\ MapMode
    /\ Len(events) >= 5
    /\ events[Len(events)].kind = "final"
    /\ \A j \in 1..(Len(events) - 1) : events[j].kind = "progress"

\* C8: with at most CHUNK_SIZE records (the boundary and 0 included) no chunk, task or
\* map step exists and the only retry-wrapped call is one on pool handle 0 over the
\* whole digest text; with more records the map phase runs.
C8_SinglePass ==
    /\ total_rows <= CHUNK_SIZE =>
          /\ chunks = << >> /\ tasks = << >> /\ task_gwr = << >> /\ done_queue = << >>
          /\ pc \in { "start", "single", "main_call", "yielded_final", "fatal", "done" }
          /\ (pc \in { "start", "single" }) <=> (main_gwr.st = "idle")
          /\ MainCallStarted =>
                /\ main_gwr.client = clients[1]
                /\ main_gwr.contents.id = << "single", 0, 0 >>
                /\ main_gwr.contents.data.parts = [k \in 1..total_rows |-> k]
    /\ total_rows > CHUNK_SIZE =>
          /\ pc # "single"
          /\ pc # "start" => Len(chunks) >= 2
          /\ MainCallStarted =>
                /\ main_gwr.contents.id = << "reduce", 0, 0 >>
                /\ \A k \in 1..Len(chunks) : task_result[k] # NotDone

\* a job of exactly CHUNK_SIZE records is done after its one direct call
C8_Witness ==
    /\ total_rows = CHUNK_SIZE
    /\ pc = "done"
    /\ main_gwr.client = clients[1]

PoolUnchanged == clients' = clients

\* C9: the task of chunk index i is given pool[i mod P] and issues its calls on it,
\* whatever the interleaving, and the pool is never modified during the job.
C9_ClientAssignment ==
    /\ [](\A k \in 1..Len(tasks) :
            /\ tasks[k].client = clients[((k - 1) % Len(clients)) + 1]
            /\ task_gwr[k].st \in { "calling", "sleeping" } =>
                  task_gwr[k].client = clients[((k - 1) % Len(clients)) + 1])
    /\ [][PoolUnchanged]_vars

\* three tasks over a pool of two: the second calls on pool[1] while the first and
\* the third call on pool[0]
C9_Witness ==
    /\ Len(clients) = 2
    /\ Len(tasks) = 3
    /\ \A k \in 1..3 : task_gwr[k].st = "calling"
    /\ task_gwr[1].client = clients[1]
    /\ task_gwr[2].client = clients[2]
    /\ task_gwr[3].client = clients[1]


\* a slot that has been written keeps its value, a slot changes only in the step
\* that hands its task over, and the array keeps its size
SlotsWrittenOnce ==
    /\ batch_summaries # << >> => Len(batch_summaries') = Len(batch_summaries)
    /\ \A k \in 1..Len(batch_summaries) :
          /\ Handed(k) => batch_summaries'[k] = batch_summaries[k]
          /\ batch_summaries'[k] # batch_summaries[k] => (~ Handed(k) /\ Handed(k)')

\* C13: during the whole map phase batch_summaries has exactly one slot per chunk
\* and each chunk has exactly one task, which ends once; the slot of chunk i is
\* written once, when its task is handed over, with the outcome of that task and of
\* no other, and is never overwritten.
C13_SlotsWrittenOnce ==
    /\ [](/\ (MapMode /\ pc \notin { "start", "map" }) =>
               (Len(batch_summaries) = Len(chunks) /\ Len(tasks) = Len(chunks))
          /\ \A k \in 1..Len(tasks) :
                /\ tasks[k].batch_index = k - 1
                /\ tasks[k].rows_text = join(chunks[k])
          /\ \A i, j \in 1..Len(done_queue) :
                i # j => done_queue[i][1] # done_queue[j][1]
          /\ \A k \in 1..Len(batch_summaries) :
                batch_summaries[k] = IF Handed(k) THEN task_result[k] ELSE EmptyText)
    /\ [][SlotsWrittenOnce]_vars

\* three tasks have ended, the third first; two have been handed over and their
\* slots hold their own outcomes, the slot of the second task is still unwritten
C13_Witness ==
    /\ pc = "map_loop"
    /\ Len(tasks) = 3
    /\ CompletionOrder(<< 2, 0, 1 >>)
    /\ completed_count = 2
    /\ batch_summaries[3] = ResponseText(batch_prompt(tasks[3]))
    /\ batch_summaries[1].kind = "marker"
    /\ task_result[2] = ResponseText(batch_prompt(tasks[2]))
    /\ batch_summaries[2] = EmptyText

\* the running counts reported so far, in the order of their events
ReportedCounts ==
    LET IsCount(e) == e.kind = "progress" /\ e.msg[1] = "progress"
        counts == SelectSeq(events, IsCount)
    IN [j \in 1..Len(counts) |-> counts[j].msg[2]]

\* C14: in the map phase one progress event is emitted for each task handed over, in
\* completion order: the counts reported are 1, 2, ... without gap or repeat, the
\* last one reported is the number of slots written so far and never exceeds the
\* number of tasks that have ended, and the count chunkCount has been reported when
\* the reduce call starts.
C14_ProgressCounts ==
    /\ ReportedCounts = [j \in 1..completed_count |-> j]
    /\ completed_count = Cardinality({ k \in 1..Len(batch_summaries) : Handed(k) })
    /\ completed_count <= Len(done_queue)
    /\ \A j \in 1..completed_count :
          events[1 + j] = Progress(<< "progress", j, Len(chunks) >>)
    /\ (MapMode /\ MainCallStarted) =>
          /\ completed_count = Len(chunks)
          /\ ReportedCounts[Len(chunks)] = Len(chunks)

\* three tasks ended in the order 1, 2, 0; the counts 1, 2, 3 were reported one by
\* one before the reduce call, which is in flight
C14_Witness ==
    /\ MapMode
    /\ main_gwr.st = "calling"
    /\ CompletionOrder(<< 1, 2, 0 >>)
    /\ ReportedCounts = << 1, 2, 3 >>
    /\ Len(events) = 5

\* C15: a task that is sleeping between two attempts, or waiting for its call,
\* holds up nothing else: every other task that has not ended can take its next step
\* (issue its call, receive the answer or the failure, wake up), and a task that has
\* ended can be handed over and have its progress event emitted.
C15_WaitSuspendsOnlyCaller ==
    \A b \in 1..Len(task_gwr) :
       (/\ pc = "map_loop"
        /\ \E a \in 1..Len(task_gwr) :
              a # b /\ task_gwr[a].st \in { "sleeping", "calling" }) =>
          /\ task_gwr[b].st = "idle" => ENABLED TaskStart(b)
          /\ task_gwr[b].st = "calling" => (ENABLED TaskResponse(b) /\ ENABLED TaskError(b))
          /\ task_gwr[b].st = "sleeping" => ENABLED TaskWake(b)
          /\ (task_gwr[b].st = "ended" /\ ~ Handed(b)) => ENABLED Consume

\* the first task is in its second backoff sleep; meanwhile the second task has
\* ended and its progress event has been emitted, and the third is calling again
\* after a sleep of its own
C15_Witness ==
    /\ pc = "map_loop"
    /\ Len(task_gwr) = 3
    /\ task_gwr[1].st = "sleeping" /\ task_gwr[1].waits = << 5, 10 >>
    /\ Handed(2)
    /\ events[Len(events)] = Progress(<< "progress", 1, 3 >>)
    /\ task_gwr[3].st = "calling" /\ task_gwr[3].calls = 2

\* C16: the error marker of a failed task carries the batch number under which its
\* chunk is announced in its prompt ("Batch i+1/total") and labelled in the reducer
\* input ("Batch i+1 Report").
C16_MarkerBatchNumber ==
    /\ \A k \in 1..Len(task_result) :
          task_result[k].kind = "marker" =>
             task_result[k].batch = batch_prompt(tasks[k]).id[2]
    /\ \A k \in 1..Len(combined_summaries) :
          combined_summaries[k].text.kind = "marker" =>
             combined_summaries[k].text.batch = combined_summaries[k].label[2]

\* C18: when the run has ended with its final document, run_analysis returns exactly
\* that document, whatever its length, and no status message is ever kept as the
\* document.
C18_ReturnedDocument ==
    /\ pc = "done" => final_html = events[Len(events)].msg
    /\ \A j \in 1..Len(events) :
          events[j].kind = "progress" => chunk_len(events[j]) < PROGRESS_THRESHOLD

(***************************************************************************)
(* FairSpec: the job of Spec with the external calls counted, for jobs of  *)
(* at most MaxFairChunks chunks, under weak fairness: a call that is       *)
(* awaited ends, a sleep elapses and a coroutine that can run is run.      *)
(***************************************************************************)
FairRowCounts ==
    { 5, CHUNK_SIZE + 1 } \cup { c * CHUNK_SIZE + 10 : c \in 2..(MaxFairChunks - 1) }

InitFair == Init /\ total_rows \in FairRowCounts

\* the external calls a step issues: one for each activation that the step leaves
\* awaiting client.aio.models.generate_content (230) and that was not before
CallsIssued ==
    Cardinality({ k \in 1..Len(task_gwr') :
                    /\ task_gwr'[k].st = "calling"
                    /\ (k > Len(task_gwr) \/ task_gwr[k].st # "calling") })
    + (IF main_gwr'.st = "calling" /\ main_gwr.st # "calling" THEN 1 ELSE 0)

CountCalls == api_calls' = api_calls + CallsIssued

FairNext ==
    \/ Begin /\ CountCalls
    \/ SingleCall /\ CountCalls
    \/ LaunchMap /\ CountCalls
    \/ \E k \in 1..Len(tasks) : TaskStart(k) /\ CountCalls
    \/ \E k \in 1..Len(tasks) : TaskResponse(k) /\ CountCalls
    \/ \E k \in 1..Len(tasks) : TaskError(k) /\ CountCalls
    \/ \E k \in 1..Len(tasks) : TaskWake(k) /\ CountCalls
    \/ Consume /\ CountCalls
    \/ Assemble /\ CountCalls
    \/ ReduceCall /\ CountCalls
    \/ MainResponse /\ CountCalls
    \/ MainError /\ CountCalls
    \/ MainWake /\ CountCalls
    \/ Finish /\ CountCalls

FairSpec == InitFair /\ [][FairNext]_vars /\ WF_vars(FairNext)

\* a task ends after at least one and at most `retries` external calls
SettlesWithinRetries ==
    \A k \in 1..Len(task_gwr) :
       (task_gwr[k].st # "ended" /\ task_gwr'[k].st = "ended") =>
          (task_gwr[k].calls >= 1 /\ task_gwr[k].calls <= retries)

\* C19: under weak fairness every job terminates: no activation of
\* generate_with_retry issues more than `retries` calls, each map task ends after at
\* most `retries` calls, the map loop reaches the barrier, the run ends with its final
\* document or with a fatal error, and at most chunkCount * retries + retries
\* external calls are issued in total.
C19_Termination ==
    /\ [](\A k \in 1..Len(task_gwr) : task_gwr[k].calls <= retries)
    /\ [](main_gwr.calls <= retries)
    /\ [](api_calls <= Len(chunks) * retries + retries)
    /\ [][SettlesWithinRetries]_vars
    /\ (pc = "map_loop") ~> (pc = "reduce" /\ completed_count = Len(chunks))
    /\ <>(pc = "fatal" \/ (pc = "done" /\ HasFinal))

\* the worst case: both map tasks and the reduce call were rate-limited at every
\* attempt, 2 * 3 + 3 calls were issued and the run has failed
C19_Witness ==
    /\ pc = "fatal"
    /\ Len(chunks) = 2
    /\ retries = 3
    /\ \A k \in 1..2 : task_result[k].kind = "marker" /\ task_result[k].wrapped
    /\ main_gwr.calls = 3
    /\ api_calls = 9

(***************************************************************************)
(* SpecRetry: one activation of generate_with_retry (225-243), for every   *)
(* retries in 0..MaxRetries and every sequence of outcomes of the calls.   *)
(***************************************************************************)
probe_prompt == [id |-> << "probe", 0, 0 >>, data |-> << >>]

InitRetry ==
    /\ retries \in 0..MaxRetries
    /\ clients \in Pools
    /\ pc = "retry"
    /\ main_gwr = IdleGwr
    /\ total_rows = 0
    /\ chunk_size = CHUNK_SIZE
    /\ chunks = << >>
    /\ tasks = << >>
    /\ task_gwr = << >>
    /\ task_result = << >>
    /\ done_queue = << >>
    /\ batch_summaries = << >>
    /\ completed_count = 0
    /\ combined_summaries = << >>
    /\ events = << >>
    /\ row = NoRow
    /\ row_string = NoRow
    /\ final_html = << >>
    /\ api_calls = 0
    /\ raw_text = NoneValue
    /\ cleaned = << >>

RetryStart ==
    /\ pc = "retry"
    /\ main_gwr.st = "idle"
    /\ \E c \in 1..Len(clients) : main_gwr' = gwr_start(clients[c], probe_prompt, retries)
    /\ UNCHANGED << total_rows, chunk_size, retries, clients, pc, chunks, tasks, task_gwr,
                    task_result, done_queue, batch_summaries, completed_count,
                    combined_summaries, events, final_html, row, row_string, api_calls, raw_text, cleaned >>

RetryResponse ==
    /\ pc = "retry"
    /\ main_gwr.st = "calling"
    /\ \E text \in ReplyTexts(main_gwr.contents) :
          main_gwr' = gwr_on_response(main_gwr, text)
    /\ UNCHANGED << total_rows, chunk_size, retries, clients, pc, chunks, tasks, task_gwr,
                    task_result, done_queue, batch_summaries, completed_count,
                    combined_summaries, events, final_html, row, row_string, api_calls, raw_text, cleaned >>

RetryError ==
    /\ pc = "retry"
    /\ main_gwr.st = "calling"
    /\ \E e \in ErrorStrs : main_gwr' = gwr_on_error(main_gwr, e, retries)
    /\ UNCHANGED << total_rows, chunk_size, retries, clients, pc, chunks, tasks, task_gwr,
                    task_result, done_queue, batch_summaries, completed_count,
                    combined_summaries, events, final_html, row, row_string, api_calls, raw_text, cleaned >>

RetryWake ==
    /\ pc = "retry"
    /\ main_gwr.st = "sleeping"
    /\ main_gwr' = gwr_on_wake(main_gwr)
    /\ UNCHANGED << total_rows, chunk_size, retries, clients, pc, chunks, tasks, task_gwr,
                    task_result, done_queue, batch_summaries, completed_count,
                    combined_summaries, events, final_html, row, row_string, api_calls, raw_text, cleaned >>

NextRetry == RetryStart \/ RetryResponse \/ RetryError \/ RetryWake

SpecRetry == InitRetry /\ [][NextRetry]_vars

\* C4: a call that fails with a rate-limit signal exactly K times (K < retries) and
\* then answers makes exactly K+1 external calls and returns the answer of the
\* (K+1)-th; the wait before the k-th retry is base_delay * 2^(k-1), the waits are
\* strictly increasing, and no wait precedes the first attempt.
C4_Backoff ==
    /\ (main_gwr.st = "returned" /\ main_gwr.result # NoneValue) =>
          LET K == Len(main_gwr.errors)
          IN /\ K < retries
             /\ \A j \in 1..K : is_rate_limit(main_gwr.errors[j])
             /\ main_gwr.calls = K + 1
             /\ main_gwr.result.call = K + 1
             /\ main_gwr.result.text \in { ResponseText(main_gwr.contents), NoneValue }
             /\ Len(main_gwr.waits) = K
             /\ \A k \in 1..K : main_gwr.waits[k] = 5 * (2 ^ (k - 1))
             /\ \A k \in 1..(K - 1) : main_gwr.waits[k] < main_gwr.waits[k + 1]
    /\ main_gwr.calls <= 1 /\ main_gwr.st \in { "idle", "calling" } => main_gwr.waits = << >>
    /\ main_gwr.st = "calling" => Len(main_gwr.waits) = main_gwr.calls - 1

\* with retries = 4, three rate-limit failures and then an answer: waits 5, 10, 20
C4_Witness ==
    /\ retries = 4
    /\ main_gwr.st = "returned"
    /\ main_gwr.result # NoneValue
    /\ main_gwr.result.text = ResponseText(main_gwr.contents)
    /\ main_gwr.errors = << "429 Too Many Requests", "quota RESOURCE_EXHAUSTED",
                            "429 Too Many Requests" >>
    /\ main_gwr.calls = 4
    /\ main_gwr.waits = << 5, 10, 20 >>

\* C11: an error that carries no rate-limit signal is fatal at whatever attempt it
\* occurs, also after earlier rate-limit retries: it is the last error of the
\* activation, it is raised as it is, no wait follows it and no further call is made.
C11_FatalNonRateLimit ==
    /\ \A j \in 1..Len(main_gwr.errors) :
          ~ (Contains429(main_gwr.errors[j]) \/ ContainsResourceExhausted(main_gwr.errors[j])) =>
             /\ j = Len(main_gwr.errors)
             /\ main_gwr.st = "raised"
             /\ main_gwr.result = [kind |-> "exception", wrapped |-> FALSE,
                                   str |-> main_gwr.errors[j]]
             /\ main_gwr.calls = j
             /\ Len(main_gwr.waits) = j - 1
    /\ main_gwr.st = "raised" => ~ ENABLED NextRetry

\* with retries = 4, two rate-limit failures were retried and the third call failed
\* with a server error
C11_Witness ==
    /\ retries = 4
    /\ main_gwr.st = "raised"
    /\ main_gwr.errors = << "429 Too Many Requests", "quota RESOURCE_EXHAUSTED",
                            "500 INTERNAL" >>
    /\ main_gwr.result.str = "500 INTERNAL"
    /\ main_gwr.calls = 3
    /\ main_gwr.waits = << 5, 10 >>

\* C12: when every attempt fails with a rate-limit signal the activation makes
\* exactly `retries` calls, waits `retries` - 1 times and raises the exhaustion error
\* carrying the description of the last failure; and for every retries >= 0 an
\* activation that returns returns the response of a call.
C12_Exhaustion ==
    /\ (main_gwr.st = "raised" /\ main_gwr.result.wrapped) =>
          /\ Len(main_gwr.errors) = retries
          /\ \A j \in 1..retries : is_rate_limit(main_gwr.errors[j])
          /\ main_gwr.calls = retries
          /\ Len(main_gwr.waits) = retries - 1
          /\ main_gwr.result.str = main_gwr.errors[retries]
    /\ main_gwr.st = "returned" =>
          /\ main_gwr.calls >= 1
          /\ main_gwr.result = Response(main_gwr.calls, main_gwr.result.text)

(***************************************************************************)
(* SpecPlan: the chunk planner (326-330) and the client assignment         *)
(* (333-341) for every record count, chunk size and pool.                  *)
(***************************************************************************)
InitPlan ==
    /\ total_rows \in 0..MaxN
    /\ chunk_size \in 1..MaxS
    /\ clients \in Pools
    /\ pc = "plan"
    /\ retries = DEFAULT_RETRIES
    /\ main_gwr = IdleGwr
    /\ chunks = << >>
    /\ tasks = << >>
    /\ task_gwr = << >>
    /\ task_result = << >>
    /\ done_queue = << >>
    /\ batch_summaries = << >>
    /\ completed_count = 0
    /\ combined_summaries = << >>
    /\ events = << >>
    /\ row = NoRow
    /\ row_string = NoRow
    /\ final_html = << >>
    /\ api_calls = 0
    /\ raw_text = NoneValue
    /\ cleaned = << >>

PlanChunks ==
    /\ pc = "plan"
    /\ chunks' = plan_chunks(compressed_rows(total_rows), chunk_size)
    /\ pc' = "planned"
    /\ UNCHANGED << total_rows, chunk_size, retries, clients, tasks, task_gwr, task_result,
                    done_queue, batch_summaries, completed_count, combined_summaries,
                    events, final_html, main_gwr, row, row_string, api_calls, raw_text, cleaned >>

AssignClients ==
    /\ pc = "planned"
    /\ tasks' = build_tasks(chunks, clients)
    /\ pc' = "assigned"
    /\ UNCHANGED << total_rows, chunk_size, retries, clients, chunks, task_gwr, task_result,
                    done_queue, batch_summaries, completed_count, combined_summaries,
                    events, final_html, main_gwr, row, row_string, api_calls, raw_text, cleaned >>

NextPlan == PlanChunks \/ AssignClients

SpecPlan == InitPlan /\ [][NextPlan]_vars

RECURSIVE Flatten(_)
Flatten(ss) == IF ss = << >> THEN << >> ELSE Head(ss) \o Flatten(Tail(ss))

\* C7: N digests and chunk size S give ceil(N/S) chunks whose concatenation in index
\* order is the original sequence; every chunk has at most S elements and only the
\* last may have fewer than S.
C7_Partition ==
    pc \in { "planned", "assigned" } =>
        /\ Len(chunks) * chunk_size >= total_rows
        /\ (Len(chunks) - 1) * chunk_size < total_rows
        /\ Len(chunks) >= 0
        /\ Flatten(chunks) = [k \in 1..total_rows |-> k]
        /\ \A k \in 1..Len(chunks) :
              /\ Len(chunks[k]) <= chunk_size
              /\ k < Len(chunks) => Len(chunks[k]) = chunk_size

\* 7 digests in chunks of 3: sizes 3, 3, 1
C7_Witness ==
    /\ pc = "planned"
    /\ total_rows = 7
    /\ chunk_size = 3
    /\ chunks = << << 1, 2, 3 >>, << 4, 5, 6 >>, << 7 >> >>


(***************************************************************************)
(* SpecCompress: compress_patent_row (199-219) on one record.  A field is  *)
(* a column name and a value; a text is modelled by its length, and a      *)
(* digest by its length, the fields it holds and whether it ends with the  *)
(* truncation marker.                                                      *)
(***************************************************************************)
TRUNCATED_LEN == 11     \* len("[TRUNCATED]")
KEY_SEP_LEN == 2        \* len(": ")
FIELD_SEP_LEN == 3      \* len(" | ")

NaN == [kind |-> "nan", len |-> 0]
Str(n) == [kind |-> "str", len |-> n]

\* the columns of the sheet, in order: a record holds a value for each of the first
\* n of them
AllColumns ==
    << "Memo", "Title", "Internal classification code (long form)", "ID",
       "Remarks (thirty characters) ab", "Applicant", "Status", "Publication Number",
       "Family" >>

\* len(str(k))
name_len(k) ==
    CASE k = "Memo" -> 4
      [] k = "Title" -> 5
      [] k = "Internal classification code (long form)" -> 40
      [] k = "ID" -> 2
      [] k = "Remarks (thirty characters) ab" -> 30
      [] k = "Applicant" -> 9
      [] k = "Status" -> 6
      [] k = "Publication Number" -> 18
      [] k = "Family" -> 6

\* any(pk in k_str for pk in priority_keys), k_str = str(k).lower()
is_priority(k) == k \in { "Title", "ID", "Applicant", "Publication Number" }

\* the values a cell is drawn from: missing, empty, short, at the limit, over it
CellValues == { NaN, Str(0), Str(12), Str(300), Str(400) }

\* pd.isna(v) or v == ""
is_blank(v) == v.kind = "nan" \/ v.len = 0

\* len(truncate_text(text, max_length)) for a text of length n
truncate_len(n, max_length) == IF n <= max_length THEN n ELSE max_length + ELLIPSIS_LEN

\* 203-208: the non-blank fields, as (score, position in the record)
RECURSIVE scored_items(_, _)
scored_items(r, i) ==
    IF i > Len(r) THEN << >>
    ELSE (IF is_blank(r[i].v) THEN << >>
          ELSE << [score |-> IF is_priority(r[i].k) THEN 0 ELSE 1, pos |-> i] >>)
         \o scored_items(r, i + 1)

IsScore0(item) == item.score = 0
IsScore1(item) == item.score = 1

\* sorted_items.sort(key=lambda x: x[0]): a stable sort on a key that is 0 or 1
stable_sort_by_score_unsorted(items) == items
stable_sort_by_score(items) == SelectSeq(items, IsScore0) \o SelectSeq(items, IsScore1)

\* f"{k_trunc}: {v_trunc} | "
entry_len(f) ==
    truncate_len(name_len(f.k), KEY_MAX) + KEY_SEP_LEN
    + truncate_len(f.v.len, VALUE_MAX) + FIELD_SEP_LEN

EmptyDigest == [len |-> 0, fields |-> << >>, truncated |-> FALSE]

\* 211-218: the loop over sorted_items from item i on, with the digest d so far
RECURSIVE emit(_, _, _, _)
emit(r, items, i, d) ==
    IF i > Len(items) THEN d
    ELSE LET d1 == [d EXCEPT !.len = @ + entry_len(r[items[i].pos]),
                             !.fields = Append(@, items[i].pos)]
         IN IF d1.len > ROW_CAP
            THEN [d1 EXCEPT !.len = @ + TRUNCATED_LEN, !.truncated = TRUE]
            ELSE emit(r, items, i + 1, d1)

compress_patent_row(r) == emit(r, stable_sort_by_score(scored_items(r, 1)), 1, EmptyDigest)

\* the records of the sheets with at most n columns
Records(n) ==
    { [i \in 1..m |-> [k |-> AllColumns[i], v |-> vals[i]]] :
        m \in 0..Min(n, Len(AllColumns)), vals \in [1..Min(n, Len(AllColumns)) -> CellValues] }

InitCompress ==
    /\ row \in Records(MaxFields)
    /\ row_string = NoRow
    /\ pc = "compress"
    /\ total_rows = 0
    /\ chunk_size = CHUNK_SIZE
    /\ retries = DEFAULT_RETRIES
    /\ clients = << >>
    /\ main_gwr = IdleGwr
    /\ chunks = << >>
    /\ tasks = << >>
    /\ task_gwr = << >>
    /\ task_result = << >>
    /\ done_queue = << >>
    /\ batch_summaries = << >>
    /\ completed_count = 0
    /\ combined_summaries = << >>
    /\ events = << >>
    /\ final_html = << >>
    /\ api_calls = 0
    /\ raw_text = NoneValue
    /\ cleaned = << >>

Compress ==
    /\ pc = "compress"
    /\ row_string' = compress_patent_row(row)
    /\ pc' = "compressed"
    /\ UNCHANGED << total_rows, chunk_size, retries, clients, chunks, tasks, task_gwr,
                    task_result, done_queue, batch_summaries, completed_count,
                    combined_summaries, events, final_html, main_gwr, row, api_calls, raw_text, cleaned >>

NextCompress == Compress

SpecCompress == InitCompress /\ [][NextCompress]_vars

\* C10: the digest of every record has length at most 1500 + len("[TRUNCATED]"),
\* names being cut to 30 and values to 300 units plus a 3-character ellipsis.
C10_DigestBound ==
    pc = "compressed" => row_string.len <= 1500 + 11

\* C20: in the digest of every record each emitted priority field comes before each
\* emitted non-priority field, the fields of one tier keep their order in the
\* record, no field with a missing or empty value is emitted, and unless the digest
\* was cut every other field is emitted.
C20_PriorityOrder ==
    pc = "compressed" =>
        LET emitted == row_string.fields
        IN /\ \A i, j \in 1..Len(emitted) :
                 i < j =>
                    /\ ~ (~ is_priority(row[emitted[i]].k) /\ is_priority(row[emitted[j]].k))
                    /\ is_priority(row[emitted[i]].k) = is_priority(row[emitted[j]].k) =>
                          emitted[i] < emitted[j]
           /\ \A i \in 1..Len(emitted) : ~ is_blank(row[emitted[i]].v)
           /\ ~ row_string.truncated =>
                 \A p \in 1..Len(row) :
                    ~ is_blank(row[p].v) => \E i \in 1..Len(emitted) : emitted[i] = p

\* Title and ID are emitted before Memo and the classification code, each pair in
\* its order in the record; the missing fifth value and the empty sixth are left out
C20_Witness ==
    /\ pc = "compressed"
    /\ Len(row) = 6
    /\ row[5].v = NaN
    /\ row[6].v = Str(0)
    /\ row_string.fields = << 2, 4, 1, 3 >>

(***************************************************************************)
(* SpecSanitize: clean_html (399-421) applied to None and to every raw     *)
(* text of at most MaxText tokens.                                         *)
(***************************************************************************)
RECURSIVE TextsUpTo(_)
TextsUpTo(n) ==
    IF n = 0 THEN { << >> }
    ELSE LET shorter == TextsUpTo(n - 1)
         IN shorter \cup { Append(t, c) : t \in shorter, c \in Tokens }

InitSanitize ==
    /\ raw_text \in { NoneValue } \cup { RawText(t) : t \in TextsUpTo(MaxText) }
    /\ cleaned = << >>
    /\ pc = "sanitize"
    /\ total_rows = 0
    /\ chunk_size = CHUNK_SIZE
    /\ retries = DEFAULT_RETRIES
    /\ clients = << >>
    /\ main_gwr = IdleGwr
    /\ chunks = << >>
    /\ tasks = << >>
    /\ task_gwr = << >>
    /\ task_result = << >>
    /\ done_queue = << >>
    /\ batch_summaries = << >>
    /\ completed_count = 0
    /\ combined_summaries = << >>
    /\ events = << >>
    /\ row = NoRow
    /\ row_string = NoRow
    /\ final_html = << >>
    /\ api_calls = 0

Sanitize ==
    /\ pc = "sanitize"
    /\ cleaned' = clean_html(raw_text)
    /\ pc' = "sanitized"
    /\ UNCHANGED << total_rows, chunk_size, retries, clients, chunks, tasks, task_gwr,
                    task_result, done_queue, batch_summaries, completed_count,
                    combined_summaries, events, main_gwr, row, row_string, final_html,
                    api_calls, raw_text >>

NextSanitize == Sanitize

SpecSanitize == InitSanitize /\ [][NextSanitize]_vars

\* the raw text, once unescaped, holds no fenced block and no "<" that is followed
\* later by a ">"
NoBlockNoMarkup(text) ==
    LET unescaped == html_unescape(text)
    IN /\ Cardinality(Positions(unescaped, "fence")) < 2
       /\ \A i, j \in 1..Len(unescaped) :
             ~ (i < j /\ unescaped[i] = "<" /\ unescaped[j] = ">")

\* a text without its stray fence delimiter (and the "html" glued to it)
WithoutStrayFence(text) ==
    IF Positions(text, "fence") = {} THEN text
    ELSE LET f == SetMin(Positions(text, "fence"))
             after == IF f < Len(text) /\ text[f + 1] = "html" THEN f + 2 ELSE f + 1
         IN SubSeq(text, 1, f - 1) \o SubSeq(text, after, Len(text))

\* C17 (as stated): for a raw text without fenced block and without markup
\* clean_html returns the empty document.
C17_NoMarkupGivesEmpty ==
    (pc = "sanitized" /\ raw_text # NoneValue /\ NoBlockNoMarkup(raw_text.tokens)) =>
        cleaned = << >>

\* C17 (amended): clean_html returns "" for None and for ""; for a raw text without
\* fenced block and without markup it does not raise and returns that text itself,
\* unescaped, without a stray fence delimiter and trimmed, which is "" only when
\* nothing but white space and the delimiter was there.
C17_NoMarkupPassesThrough ==
    pc = "sanitized" =>
        /\ raw_text \in { NoneValue, RawText(<< >>) } => cleaned = << >>
        /\ (raw_text # NoneValue /\ NoBlockNoMarkup(raw_text.tokens)) =>
              LET unescaped == html_unescape(raw_text.tokens)
              IN /\ cleaned = strip(WithoutStrayFence(unescaped))
                 /\ cleaned = << >> <=>
                       \A j \in 1..Len(unescaped) :
                          \/ unescaped[j] \in { " ", "fence" }
                          \/ (unescaped[j] = "html" /\ j > 1 /\ unescaped[j - 1] = "fence")

\* a plain answer without any markup comes back as it is
C17_Witness ==
    /\ pc = "sanitized"
    /\ raw_text = RawText(<< " ", "word", " ", "prose" >>)
    /\ cleaned = << "word", " ", "prose" >>

====
